---- MODULE Spec2Model ----
(***************************************************************************)
(* Recurring-subscription reconciliation engine of the PayPal payment      *)
(* provider: the Plan/Product resolver (getOrCreatePlan), the subscription *)
(* verifier (verifySubscription) and the activation orchestrator           *)
(* (setupPaypalSubscriptionForOrder).                                      *)
(*                                                                         *)
(* Every `await` of the source is one step of the model.  The gateway      *)
(* (paypalRequest) is a black box: a call either fails or answers, and the *)
(* answer to a fetch is any object of a small set.  Store writes either    *)
(* fail as a whole or are applied.                                         *)
(***************************************************************************)
EXTENDS Integers, Sequences, FiniteSets, TLC

\* null of an id or a number / of a string
NoId == 0
NULL == "null"

(***************************************************************************)
(* Bounds of the model.                                                    *)
(***************************************************************************)
\* number of getOrCreatePlan calls (each caller calls once; callers are numbered
\* in the order in which their calls begin)
NumCalls == 2
\* number of clients that call setupPaypalSubscriptionForOrder on the Order
NumAttempts == 2

Callers == 1..NumCalls
Attempts == 1..NumAttempts

Collectives == {1, 2}
TierIds == {NoId, 1}
Amounts == {1000, 2000}
Intervals == {"month", "year"}
Currencies == {"USD"}
\* external subscription ids (a payment method's token)
SubIds == {"I-1", "I-2"}
\* plan ids a fetched external subscription may name: the local Plans and an unknown one
UnknownPlanId == 99
FetchedPlanIds == {2, 3, 5, 7, UnknownPlanId}
FetchedStatuses == {"APPROVED", "ACTIVE"}

VARIABLES
  products,     \* PaypalProducts table: set of [id, CollectiveId, TierId]
  plans,        \* PaypalPlans table: set of [id, ProductId, amount, currency, interval]
  nextId,       \* the gateway's next fresh resource id (products and plans)
  rcall         \* per caller: the getOrCreatePlan invocation (locals and history)

planVars == <<products, plans, nextId, rcall>>

VARIABLES
  order,          \* the Order row
  subscriptions,  \* Subscriptions table: sequence of rows, a row's id is its index
  attempt         \* per client: its setupPaypalSubscriptionForOrder call (locals and history)

setupVars == <<order, subscriptions, attempt>>

VARIABLES
  edit,         \* the mutation-service call in progress (inputs, locals and history)
  edits         \* number of mutation-service calls begun

editVars == <<edit, edits>>

VARIABLES
  nodeEnv,      \* process.env.NODE_ENV
  requests,     \* per request: its fields set by the middleware and its response
  entries,      \* the EventEmitter objects created by the middleware, by creating request
  cache         \* lib/cache: cache key -> the entry stored under it (0: none)

cacheVars == <<nodeEnv, requests, entries, cache>>

VARIABLES
  wcall         \* the updateSubscriptionWithPaypal call in progress (locals and result)

withVars == <<wcall>>

(***************************************************************************)
(* getOrCreatePlan                                                         *)
(***************************************************************************)
\* collective .. ret are the call's parameters, locals and result; gw (the gateway
\* calls issued), writes (the rows written) and seenProducts, seenPlans (the store
\* as the call found it) are its history.
IdleCall ==
  [pc |-> "idle", collective |-> NoId, tier |-> NoId, interval |-> NULL,
   amount |-> 0, currency |-> NULL,
   product |-> NoId, paypalProduct |-> NoId, paypalPlan |-> NoId,
   ret |-> NoId, gw |-> <<>>, writes |-> <<>>,
   seenProducts |-> {}, seenPlans |-> {}]

\* `tier?.id || null` of the lookup; `tier?.id` of the create is stored as NULL
\* when undefined.
TierIdOrNull(tier) == IF tier = NoId THEN NoId ELSE tier

\* A lookup by `TierId: tier?.id`: without the `|| null` no row matches a call
\* made without a tier.
MatchingProductsNoNullTier(collective, tier) ==
  {pr \in products : /\ tier # NoId
                     /\ pr.CollectiveId = collective /\ pr.TierId = tier}

\* where: { CollectiveId: collective.id, TierId: tier?.id || null }
MatchingProducts(collective, tier) ==
  {pr \in products : pr.CollectiveId = collective /\ pr.TierId = TierIdOrNull(tier)}

\* include plans where: { currency, interval, amount } (of the product found)
MatchingPlans(productId, currency, interval, amount) ==
  {pl \in plans : /\ pl.ProductId = productId
                  /\ pl.currency = currency
                  /\ pl.interval = interval
                  /\ pl.amount = amount}

Settled(p) == rcall[p].pc \in {"idle", "returned", "thrown"}

\* The call and its findOne: the product found (any matching row, the query has
\* no ORDER BY) decides the branch.
FindOne(p, collective, tier, interval, amount, currency) ==
  /\ rcall[p].pc = "idle"
  /\ \A q \in Callers : q < p => rcall[q].pc # "idle"
  /\ LET args == [IdleCall EXCEPT !.collective = collective, !.tier = tier,
                    !.interval = interval, !.amount = amount, !.currency = currency,
                    !.seenProducts = products, !.seenPlans = plans]
         found == MatchingProducts(collective, tier)
     IN IF found = {}
        THEN rcall' = [rcall EXCEPT ![p] = [args EXCEPT !.pc = "createProduct"]]
        ELSE \E pr \in found :
               LET ps == MatchingPlans(pr.id, currency, interval, amount)
               IN IF ps # {}
                  THEN \E pl \in ps :
                         rcall' = [rcall EXCEPT ![p] =
                           [args EXCEPT !.pc = "returned", !.product = pr.id, !.ret = pl.id]]
                  ELSE rcall' = [rcall EXCEPT ![p] =
                         [args EXCEPT !.pc = "createPlan", !.product = pr.id]]
  /\ UNCHANGED <<products, plans, nextId, setupVars, editVars, cacheVars, withVars>>

GetOrCreatePlan(p) ==
  \E c \in Collectives, t \in TierIds, i \in Intervals, a \in Amounts, cur \in Currencies :
    FindOne(p, c, t, i, a, cur)

\* A caller that waits for the calls before it: one operation at a time.
GetOrCreatePlanSerial(p) ==
  /\ \A q \in Callers : Settled(q)
  /\ GetOrCreatePlan(p)

\* createPaypalProduct: POST catalogs/products
CreatePaypalProduct(p) ==
  /\ rcall[p].pc = "createProduct"
  /\ \/ /\ rcall' = [rcall EXCEPT ![p].pc = "createPlanNew",
                                  ![p].paypalProduct = nextId,
                                  ![p].gw = Append(@, <<"createProduct", NoId>>)]
        /\ nextId' = nextId + 1
     \/ /\ rcall' = [rcall EXCEPT ![p].pc = "thrown",
                                  ![p].gw = Append(@, <<"createProduct", NoId>>)]
        /\ UNCHANGED nextId
  /\ UNCHANGED <<products, plans, setupVars, editVars, cacheVars, withVars>>

\* A plan always scoped to paypalProduct.id, also when the product was found.
PlanProductIdOfNewProduct(c) == c.paypalProduct

\* The product id the new plan is scoped to: product.id or paypalProduct.id
PlanProductId(c) == IF c.pc = "createPlan" THEN c.product ELSE c.paypalProduct

\* createPaypalPlan: POST billing/plans with product_id
CreatePaypalPlan(p) ==
  /\ rcall[p].pc \in {"createPlan", "createPlanNew"}
  /\ LET call == <<"createPlan", PlanProductId(rcall[p])>>
         next == IF rcall[p].pc = "createPlan" THEN "savePlan" ELSE "saveProduct"
     IN \/ /\ rcall' = [rcall EXCEPT ![p].pc = next,
                                     ![p].paypalPlan = nextId,
                                     ![p].gw = Append(@, call)]
           /\ nextId' = nextId + 1
        \/ /\ rcall' = [rcall EXCEPT ![p].pc = "thrown", ![p].gw = Append(@, call)]
           /\ UNCHANGED nextId
  /\ UNCHANGED <<products, plans, setupVars, editVars, cacheVars, withVars>>

NewPlan(c, productId) ==
  [id |-> c.paypalPlan, ProductId |-> productId, amount |-> c.amount,
   currency |-> c.currency, interval |-> c.interval]

NewProduct(c) ==
  [id |-> c.paypalProduct, CollectiveId |-> c.collective, TierId |-> TierIdOrNull(c.tier)]

\* models.PaypalPlan.create under the product found
SavePlan(p) ==
  /\ rcall[p].pc = "savePlan"
  /\ \/ /\ plans' = plans \cup {NewPlan(rcall[p], rcall[p].product)}
        /\ rcall' = [rcall EXCEPT ![p].pc = "returned",
                                  ![p].ret = rcall[p].paypalPlan,
                                  ![p].writes = Append(@, <<"plan", rcall[p].paypalPlan>>)]
     \/ /\ rcall' = [rcall EXCEPT ![p].pc = "thrown"]
        /\ UNCHANGED plans
  /\ UNCHANGED <<products, nextId, setupVars, editVars, cacheVars, withVars>>

\* models.PaypalPlan.create with include product: the included product row is
\* saved first,
SaveProduct(p) ==
  /\ rcall[p].pc = "saveProduct"
  /\ \/ /\ products' = products \cup {NewProduct(rcall[p])}
        /\ rcall' = [rcall EXCEPT ![p].pc = "savePlanNew",
                                  ![p].writes = Append(@, <<"product", rcall[p].paypalProduct>>)]
     \/ /\ rcall' = [rcall EXCEPT ![p].pc = "thrown"]
        /\ UNCHANGED products
  /\ UNCHANGED <<plans, nextId, setupVars, editVars, cacheVars, withVars>>

\* then the plan row.
SavePlanNew(p) ==
  /\ rcall[p].pc = "savePlanNew"
  /\ \/ /\ plans' = plans \cup {NewPlan(rcall[p], rcall[p].paypalProduct)}
        /\ rcall' = [rcall EXCEPT ![p].pc = "returned",
                                  ![p].ret = rcall[p].paypalPlan,
                                  ![p].writes = Append(@, <<"plan", rcall[p].paypalPlan>>)]
     \/ /\ rcall' = [rcall EXCEPT ![p].pc = "thrown"]
        /\ UNCHANGED plans
  /\ UNCHANGED <<products, nextId, setupVars, editVars, cacheVars, withVars>>

(***************************************************************************)
(* verifySubscription                                                      *)
(***************************************************************************)
ErrNotApproved == "Subscription must be approved to be activated"
ErrPlanMismatch == "PayPal plan does not match the subscription"
ErrAmountMismatch == "The plan amount does not match the order amount"
VerifyOk == "ok"

\* models.PaypalPlan.findOne where id = plan_id, with its product required to
\* have the Order's CollectiveId and TierId
FindPlanForOrder(o, planId) ==
  {pl \in plans :
     /\ pl.id = planId
     /\ \E pr \in products : /\ pr.id = pl.ProductId
                             /\ pr.CollectiveId = o.CollectiveId
                             /\ pr.TierId = o.TierId}

\* A verification without the amount rule.
VerifySubscriptionNoAmount(o, paypalSubscription) ==
  IF paypalSubscription.status # "APPROVED" THEN ErrNotApproved
  ELSE IF FindPlanForOrder(o, paypalSubscription.plan_id) = {} THEN ErrPlanMismatch
  ELSE VerifyOk

\* A verification without the approval rule.
VerifySubscriptionNoApproval(o, paypalSubscription) ==
  LET found == FindPlanForOrder(o, paypalSubscription.plan_id)
  IN IF found = {} THEN ErrPlanMismatch
     ELSE IF (CHOOSE pl \in found : TRUE).amount # o.totalAmount THEN ErrAmountMismatch
     ELSE VerifyOk

VerifySubscription(o, paypalSubscription) ==
  IF paypalSubscription.status # "APPROVED" THEN ErrNotApproved
  ELSE LET found == FindPlanForOrder(o, paypalSubscription.plan_id)
       IN IF found = {} THEN ErrPlanMismatch
          ELSE IF (CHOOSE pl \in found : TRUE).amount # o.totalAmount THEN ErrAmountMismatch
          ELSE VerifyOk

(***************************************************************************)
(* setupPaypalSubscriptionForOrder                                         *)
(***************************************************************************)
SnapshotFields == {"isManagedExternally", "stripeSubscriptionId", "paypalSubscriptionId"}

NoSnapshot ==
  [isManagedExternally |-> FALSE, stripeSubscriptionId |-> NULL, paypalSubscriptionId |-> NULL]

NoResponse == [id |-> NULL, status |-> NULL, plan_id |-> NoId, email |-> NULL]

\* no Subscription row
NoRow ==
  [paypalSubscriptionId |-> NULL, stripeSubscriptionId |-> NULL, amount |-> 0,
   currency |-> NULL, interval |-> NULL, quantity |-> 0, isActive |-> FALSE,
   isManagedExternally |-> FALSE, chargeNumber |-> 0]

\* token .. result are the call's locals and outcome (inst is the dataValues of
\* existingSubscription); before (the existing row as
\* the call found it) and trace (the gateway calls and store writes issued, in
\* order, each with its outcome) are its history.
IdleAttempt ==
  [pc |-> "idle", token |-> NULL, existing |-> NoId, initial |-> NoSnapshot,
   inst |-> NoRow, fetched |-> NoResponse, verdict |-> NULL, pmName |-> NULL,
   root |-> NULL, result |-> NULL, before |-> NoRow, trace |-> <<>>]

SubscriberEmail == "payer@example.org"

\* A pick that leaves stripeSubscriptionId out.
InitialSubscriptionParamsNoStripe(row) ==
  [isManagedExternally |-> row.isManagedExternally,
   stripeSubscriptionId |-> NULL,
   paypalSubscriptionId |-> row.paypalSubscriptionId]

\* pick(existingSubscription?.dataValues, [...])
InitialSubscriptionParams(row) ==
  [isManagedExternally |-> row.isManagedExternally,
   stripeSubscriptionId |-> row.stripeSubscriptionId,
   paypalSubscriptionId |-> row.paypalSubscriptionId]

\* instance.update(values) writes the fields whose value differs from the
\* instance's, and writes nothing when none does.
Changed(inst, values) == {f \in SnapshotFields : inst[f] # values[f]}

ApplyUpdate(row, inst, values) ==
  [f \in DOMAIN row |-> IF f \in Changed(inst, values) THEN values[f] ELSE row[f]]

\* the instance after a successful update
SetValues(inst, values) ==
  [f \in DOMAIN inst |-> IF f \in SnapshotFields THEN values[f] ELSE inst[f]]

\* existingSubscription.update({ isManagedExternally: true, stripeSubscriptionId: null, paypalSubscriptionId })
NewSubscriptionParams(paypalSubscriptionId) ==
  [isManagedExternally |-> TRUE, stripeSubscriptionId |-> NULL,
   paypalSubscriptionId |-> paypalSubscriptionId]

\* A created subscription left to the internal scheduler.
NewSubscriptionNotManaged(o, paypalSubscriptionId) ==
  [paypalSubscriptionId |-> paypalSubscriptionId,
   stripeSubscriptionId |-> NULL,
   amount |-> o.totalAmount,
   currency |-> o.currency,
   interval |-> o.interval,
   quantity |-> o.quantity,
   isActive |-> FALSE,
   isManagedExternally |-> FALSE,
   chargeNumber |-> 0]

\* createSubscription: order.createSubscription({...})
NewSubscription(o, paypalSubscriptionId) ==
  [paypalSubscriptionId |-> paypalSubscriptionId,
   stripeSubscriptionId |-> NULL,
   amount |-> o.totalAmount,
   currency |-> o.currency,
   interval |-> o.interval,
   quantity |-> o.quantity,
   isActive |-> FALSE,
   isManagedExternally |-> TRUE,
   chargeNumber |-> 0]

AttemptSettled(a) == attempt[a].pc \in {"idle", "done", "failed"}

Event(kind, arg, ok) == <<kind, arg, ok>>

\* The catch block is entered with the exception e.
Throw(a, e, event) ==
  attempt' = [attempt EXCEPT ![a].pc = "catch", ![a].root = e,
                             ![a].trace = Append(@, event)]

\* The call: host and existing subscription are read, the token and the initial
\* params are taken.
BeginAttempt(token) ==
  LET existing == order.SubscriptionId
      snap == IF existing # NoId
              THEN InitialSubscriptionParams(subscriptions[existing])
              ELSE NoSnapshot
  IN [IdleAttempt EXCEPT !.pc = "fetch", !.token = token, !.existing = existing,
                         !.initial = snap,
                         !.inst = IF existing # NoId THEN subscriptions[existing]
                                  ELSE NoRow,
                         !.before = IF existing # NoId THEN subscriptions[existing]
                                    ELSE NoRow]

SetupPaypalSubscriptionForOrder(a, token) ==
  /\ AttemptSettled(a)
  /\ attempt' = [attempt EXCEPT ![a] = BeginAttempt(token)]
  /\ UNCHANGED <<order, subscriptions, planVars, editVars, cacheVars, withVars>>

\* One client at a time on the Order.
SetupSerial(a) ==
  /\ a = 1
  /\ \E token \in SubIds : SetupPaypalSubscriptionForOrder(a, token)

\* Clients whose calls on the Order overlap: each makes one call, numbered in
\* the order the calls begin.
SetupConcurrent(a) ==
  /\ attempt[a].pc = "idle"
  /\ \A b \in Attempts : b < a => attempt[b].pc # "idle"
  /\ \E token \in SubIds : SetupPaypalSubscriptionForOrder(a, token)

\* A flow that renames the payment method without verifying first.
AfterFetchSkipVerify(att) == "rename"

\* What follows a successful fetch.
AfterFetch(att) == "verify"

\* fetchPaypalSubscription: GET billing/subscriptions/{id}
FetchPaypalSubscription(a) ==
  /\ attempt[a].pc = "fetch"
  /\ \/ \E id \in SubIds, st \in FetchedStatuses, pid \in FetchedPlanIds :
          attempt' = [attempt EXCEPT
            ![a].pc = AfterFetch(attempt[a]),
            ![a].fetched = [id |-> id, status |-> st, plan_id |-> pid,
                            email |-> SubscriberEmail],
            ![a].trace = Append(@, Event("fetch", attempt[a].token, TRUE))]
     \/ Throw(a, "fetch failed", Event("fetch", attempt[a].token, FALSE))
  /\ UNCHANGED <<order, subscriptions, planVars, editVars, cacheVars, withVars>>

\* await verifySubscription(order, newPaypalSubscription)
Verify(a) ==
  /\ attempt[a].pc = "verify"
  /\ LET v == VerifySubscription(order, attempt[a].fetched)
     IN IF v = VerifyOk
        THEN attempt' = [attempt EXCEPT ![a].pc = "rename", ![a].verdict = v,
                                        ![a].trace = Append(@, Event("verified", NULL, TRUE))]
        ELSE attempt' = [attempt EXCEPT ![a].pc = "catch", ![a].verdict = v, ![a].root = v]
  /\ UNCHANGED <<order, subscriptions, planVars, editVars, cacheVars, withVars>>

\* What follows the payment method's update: the branch on existingSubscription.
AfterRename(att) ==
  IF att.existing # NoId
  THEN IF att.inst.paypalSubscriptionId # NULL THEN "cancel" ELSE "update"
  ELSE "create"

\* paymentMethod.update({ name: newPaypalSubscription.subscriber.email_address })
UpdatePaymentMethodName(a) ==
  /\ attempt[a].pc = "rename"
  /\ \/ attempt' = [attempt EXCEPT
          ![a].pc = AfterRename(attempt[a]),
          ![a].pmName = attempt[a].fetched.email,
          ![a].trace = Append(@, Event("rename", attempt[a].fetched.email, TRUE))]
     \/ Throw(a, "rename failed", Event("rename", attempt[a].fetched.email, FALSE))
  /\ UNCHANGED <<order, subscriptions, planVars, editVars, cacheVars, withVars>>

\* A cancel of the subscription being set up instead of the one held.
CancelTargetNew(a) == attempt[a].token

\* cancelPaypalSubscription reads the Order's subscription again and cancels the
\* id it holds.
CancelTarget(a) == subscriptions[order.SubscriptionId].paypalSubscriptionId

\* A cancel whose failure is swallowed.
AfterCancelTolerant(ok) == "update"

\* What follows the cancel call, by its outcome.
AfterCancel(ok) == IF ok THEN "update" ELSE "catch"

CancelPaypalSubscription(a) ==
  /\ attempt[a].pc = "cancel"
  /\ \E ok \in BOOLEAN :
       attempt' = [attempt EXCEPT
         ![a].pc = AfterCancel(ok),
         ![a].root = IF AfterCancel(ok) = "catch" THEN "cancel failed" ELSE @,
         ![a].trace = Append(@, Event("cancel", CancelTarget(a), ok))]
  /\ UNCHANGED <<order, subscriptions, planVars, editVars, cacheVars, withVars>>

UpdateExistingSubscription(a) ==
  /\ attempt[a].pc = "update"
  /\ LET values == NewSubscriptionParams(attempt[a].token)
         id == attempt[a].existing
     IN IF Changed(attempt[a].inst, values) = {}
        THEN /\ attempt' = [attempt EXCEPT ![a].pc = "activate"]
             /\ UNCHANGED subscriptions
        ELSE \/ /\ subscriptions' = [subscriptions EXCEPT
                     ![id] = ApplyUpdate(@, attempt[a].inst, values)]
                /\ attempt' = [attempt EXCEPT
                     ![a].pc = "activate", ![a].inst = SetValues(@, values),
                     ![a].trace = Append(@, Event("update", attempt[a].token, TRUE))]
             \/ /\ Throw(a, "update failed", Event("update", attempt[a].token, FALSE))
                /\ UNCHANGED subscriptions
  /\ UNCHANGED <<order, planVars, editVars, cacheVars, withVars>>

CreateSubscription(a) ==
  /\ attempt[a].pc = "create"
  /\ \/ /\ subscriptions' = Append(subscriptions, NewSubscription(order, attempt[a].token))
        /\ order' = [order EXCEPT !.SubscriptionId = Len(subscriptions) + 1]
        /\ attempt' = [attempt EXCEPT
             ![a].pc = "activate",
             ![a].trace = Append(@, Event("create", attempt[a].token, TRUE))]
     \/ /\ Throw(a, "create failed", Event("create", attempt[a].token, FALSE))
        /\ UNCHANGED <<order, subscriptions>>
  /\ UNCHANGED <<planVars, editVars, cacheVars, withVars>>

\* POST billing/subscriptions/{paypalSubscriptionId}/activate
ActivatePaypalSubscription(a) ==
  /\ attempt[a].pc = "activate"
  /\ \/ attempt' = [attempt EXCEPT
          ![a].pc = "done", ![a].result = "order",
          ![a].trace = Append(@, Event("activate", attempt[a].token, TRUE))]
     \/ Throw(a, "activate failed", Event("activate", attempt[a].token, FALSE))
  /\ UNCHANGED <<order, subscriptions, planVars, editVars, cacheVars, withVars>>

ActivationError == "Failed to activate PayPal subscription"
RestoreError == "restore failed"

\* catch (e): restore the initial subscription, then throw the error that
\* carries e as rootException.  A failing restore is thrown as it is.
Catch(a) ==
  /\ attempt[a].pc = "catch"
  /\ LET id == attempt[a].existing
         values == attempt[a].initial
     IN IF id = NoId \/ Changed(attempt[a].inst, values) = {}
        THEN /\ attempt' = [attempt EXCEPT ![a].pc = "failed", ![a].result = ActivationError]
             /\ UNCHANGED subscriptions
        ELSE \/ /\ subscriptions' = [subscriptions EXCEPT
                     ![id] = ApplyUpdate(@, attempt[a].inst, values)]
                /\ attempt' = [attempt EXCEPT
                     ![a].pc = "failed", ![a].result = ActivationError,
                     ![a].inst = SetValues(@, values),
                     ![a].trace = Append(@, Event("restore", NULL, TRUE))]
             \/ /\ attempt' = [attempt EXCEPT
                     ![a].pc = "failed", ![a].result = RestoreError,
                     ![a].trace = Append(@, Event("restore", NULL, FALSE))]
                /\ UNCHANGED subscriptions
  /\ UNCHANGED <<order, planVars, editVars, cacheVars, withVars>>

SetupStep(a) ==
  \/ FetchPaypalSubscription(a)
  \/ Verify(a)
  \/ UpdatePaymentMethodName(a)
  \/ CancelPaypalSubscription(a)
  \/ UpdateExistingSubscription(a)
  \/ CreateSubscription(a)
  \/ ActivatePaypalSubscription(a)
  \/ Catch(a)

(***************************************************************************)
(* Initial states                                                          *)
(***************************************************************************)
\* A store four getOrCreatePlan calls have filled.
StoreProducts ==
  {[id |-> 1, CollectiveId |-> 1, TierId |-> NoId],
   [id |-> 4, CollectiveId |-> 1, TierId |-> 1],
   [id |-> 6, CollectiveId |-> 2, TierId |-> NoId]}

StorePlans ==
  {[id |-> 2, ProductId |-> 1, amount |-> 1000, currency |-> "USD", interval |-> "month"],
   [id |-> 3, ProductId |-> 1, amount |-> 2000, currency |-> "USD", interval |-> "month"],
   [id |-> 5, ProductId |-> 4, amount |-> 2000, currency |-> "USD", interval |-> "month"],
   [id |-> 7, ProductId |-> 6, amount |-> 1000, currency |-> "USD", interval |-> "month"]}

\* The Order's subscription before the first activation: none, one charged by
\* Stripe, or one managed by PayPal.
ExistingSubscription(o, managed, stripeId, paypalId) ==
  [paypalSubscriptionId |-> paypalId,
   stripeSubscriptionId |-> stripeId,
   amount |-> o.totalAmount,
   currency |-> o.currency,
   interval |-> o.interval,
   quantity |-> o.quantity,
   isActive |-> TRUE,
   isManagedExternally |-> managed,
   chargeNumber |-> 3]

NewOrder(collective, tier, amount) ==
  [CollectiveId |-> collective, TierId |-> tier, totalAmount |-> amount,
   currency |-> "USD", interval |-> "month", quantity |-> 1, SubscriptionId |-> NoId,
   PaymentMethodId |-> NoId, status |-> "ACTIVE"]

(***************************************************************************)
(* Response cache middleware (middleware/cache.js)                         *)
(***************************************************************************)

\* requests the model sends through the middleware, numbered in arrival order
NumRequests == 2

Requests == 1..NumRequests

\* NODE_ENV of the process
NodeEnvs == {"production", "test"}

\* req.body.query, as the words of the document
Queries == {<<"query", "collective">>, <<"mutation", "editCollective">>}

\* req.headers.authorization
Tokens == {"t1", "t2"}

\* what the downstream handler passes to res.end: a Buffer, a string, or nothing
NoData == [kind |-> "undefined", bytes |-> NULL]
ResponseData ==
  {[kind |-> "buffer", bytes |-> "e30="], [kind |-> "buffer", bytes |-> "W10="],
   [kind |-> "string", bytes |-> "e30="], NoData}

JsonContentType == "application/json; charset=utf-8"

\* query.indexOf('mutation') !== -1
ContainsMutation(query) == \E i \in DOMAIN query : query[i] = "mutation"

\* the checksum of query, variables and token
Checksum(query, token) == <<query, token>>

CacheKeys == {Checksum(q, t) : q \in Queries, t \in Tokens}

NoEntry == [status |-> NULL, response |-> NoData, contentType |-> NULL, listeners |-> {}]

\* query, token, checksum and cached are the request's fields; downstream says
\* next() was called, state/body/contentType are its response; found (the entry
\* the lookup returned) and inProgress (a request with the same key that was
\* still being processed on arrival, 0 if none) are history.
NewRequest ==
  [state |-> "new", query |-> <<>>, token |-> NULL, checksum |-> <<>>, cached |-> 0,
   downstream |-> FALSE, body |-> NULL, contentType |-> NULL,
   found |-> NoEntry, inProgress |-> 0]

\* JavaScript truthiness of a stored response
Truthy(data) == data.kind = "buffer" \/ (data.kind = "string" /\ data.bytes # "")

Base64Decode(s) == IF s = "e30=" THEN "{}" ELSE IF s = "W10=" THEN "[]" ELSE ""

\* Buffer.from(data, 'base64'): a copy of a Buffer, the decoded bytes of a string
BufferFrom(data) ==
  IF data.kind = "buffer" THEN data.bytes ELSE Base64Decode(data.bytes)

\* A content type recorded whatever the data is.
ContentTypeForAnyData(data, old) == JsonContentType

\* if (typeof data === 'object') contentType = 'application/json; charset=utf-8'
ContentTypeFor(data, old) == IF data.kind = "buffer" THEN JsonContentType ELSE old

\* cache.get(checksum)
CacheGet(key) == IF cache[key] = 0 THEN NoEntry ELSE entries[cache[key]]

\* a request with this key that went downstream and has not been answered yet
InProgress(key) ==
  {q \in Requests : requests[q].state = "downstream" /\ requests[q].checksum = key}

\* The middleware, from the arrival of the request to its return.
Middleware(r, query, token) ==
  /\ requests[r].state = "new"
  /\ \A q \in Requests : q < r => requests[q].state # "new"
  /\ LET key == Checksum(query, token)
         cached == CacheGet(key)
         arrived == [requests[r] EXCEPT
                       !.query = query, !.token = token,
                       !.inProgress = IF InProgress(key) = {} THEN 0
                                      ELSE CHOOSE q \in InProgress(key) :
                                             \A p \in InProgress(key) : p <= q]
     IN IF nodeEnv \in {"circleci", "test"}
        THEN /\ requests' = [requests EXCEPT ![r] =
                   [arrived EXCEPT !.state = "downstream", !.downstream = TRUE]]
             /\ UNCHANGED <<entries, cache>>
        ELSE IF ContainsMutation(query)
        THEN /\ requests' = [requests EXCEPT ![r] =
                   [arrived EXCEPT !.state = "downstream", !.downstream = TRUE]]
             /\ UNCHANGED <<entries, cache>>
        ELSE IF cached.status # NULL /\ cached.contentType # NULL /\ Truthy(cached.response)
        THEN IF cached.status = "finished"
             THEN /\ requests' = [requests EXCEPT ![r] =
                        [arrived EXCEPT !.checksum = key, !.found = cached,
                                        !.state = "answered",
                                        !.contentType = cached.contentType,
                                        !.body = BufferFrom(cached.response)]]
                  /\ UNCHANGED <<entries, cache>>
             ELSE /\ requests' = [requests EXCEPT ![r] =
                        [arrived EXCEPT !.checksum = key, !.found = cached,
                                        !.state = "waiting"]]
                  /\ entries' = [entries EXCEPT ![cache[key]].listeners = @ \cup {r}]
                  /\ UNCHANGED cache
        ELSE /\ entries' = [entries EXCEPT ![r] = [NoEntry EXCEPT !.status = "running"]]
             /\ cache' = [cache EXCEPT ![key] = r]
             /\ requests' = [requests EXCEPT ![r] =
                   [arrived EXCEPT !.checksum = key, !.found = cached, !.cached = r,
                                   !.state = "downstream", !.downstream = TRUE]]
  /\ UNCHANGED <<nodeEnv, planVars, setupVars, editVars, withVars>>

\* The downstream handler ends the response: the res.end installed by the
\* middleware, the 'finished' listeners it wakes, and the original res.end.
EndResponse(r, data) ==
  /\ requests[r].state = "downstream"
  /\ IF requests[r].cached # 0
     THEN LET e == requests[r].cached
              finished == [entries[e] EXCEPT
                             !.status = "finished",
                             !.response = data,
                             !.contentType = ContentTypeFor(data, @),
                             !.listeners = {}]
          IN /\ entries' = [entries EXCEPT ![e] = finished]
             /\ cache' = [cache EXCEPT ![requests[r].checksum] = e]
             /\ requests' = [q \in Requests |->
                  IF q = r
                  THEN [requests[q] EXCEPT !.state = "answered", !.body = data.bytes]
                  ELSE IF q \in entries[e].listeners
                  THEN [requests[q] EXCEPT !.state = "answered",
                                           !.body = BufferFrom(data)]
                  ELSE requests[q]]
     ELSE /\ requests' = [requests EXCEPT ![r].state = "answered", ![r].body = data.bytes]
          /\ UNCHANGED <<entries, cache>>
  /\ UNCHANGED <<nodeEnv, planVars, setupVars, editVars, withVars>>

\* The cache drops an entry whose time to live has run out.
Expire(key) ==
  /\ cache[key] # 0
  /\ cache' = [cache EXCEPT ![key] = 0]
  /\ UNCHANGED <<nodeEnv, requests, entries, planVars, setupVars, editVars, withVars>>

CacheIdle ==
  /\ nodeEnv = "production"
  /\ requests = [r \in Requests |-> NewRequest]
  /\ entries = [r \in Requests |-> NoEntry]
  /\ cache = [k \in CacheKeys |-> 0]

(***************************************************************************)
(* Subscription mutation service (lib/subscriptions.ts)                    *)
(***************************************************************************)

\* calls of the mutation service, made one after another on the Order
NumEdits == 2

\* the acting users, each with the accounts it administers
Users == {[id |-> 1, adminOf |-> {10}], [id |-> 2, adminOf |-> {20}]}

\* PaymentMethods table: a card and two PayPal subscriptions of account 10, a
\* card of account 20
PaymentMethods ==
  {[id |-> 1, service |-> "stripe", type |-> "creditcard", CollectiveId |-> 10,
    token |-> "tok_1"],
   [id |-> 2, service |-> "paypal", type |-> "subscription", CollectiveId |-> 10,
    token |-> "I-1"],
   [id |-> 3, service |-> "stripe", type |-> "creditcard", CollectiveId |-> 20,
    token |-> "tok_3"],
   [id |-> 4, service |-> "paypal", type |-> "subscription", CollectiveId |-> 10,
    token |-> "I-2"]}

PaymentMethod(id) == CHOOSE pm \in PaymentMethods : pm.id = id

OrderStatuses == {"ACTIVE", "ERROR", "CANCELLED"}

\* no tier given (a custom contribution)
NoTier ==
  [id |-> NoId, CollectiveId |-> NoId, amountType |-> NULL, amount |-> 0,
   minimumAmount |-> 0, interval |-> NULL]

\* Tiers table: a fixed yearly tier and a flexible tier of collective 1, a fixed
\* tier of collective 2
Tiers ==
  {[id |-> 1, CollectiveId |-> 1, amountType |-> "FIXED", amount |-> 500,
    minimumAmount |-> 0, interval |-> "year"],
   [id |-> 2, CollectiveId |-> 1, amountType |-> "FLEXIBLE", amount |-> 0,
    minimumAmount |-> 200, interval |-> "flexible"],
   [id |-> 3, CollectiveId |-> 2, amountType |-> "FIXED", amount |-> 500,
    minimumAmount |-> 0, interval |-> "month"]}

RequestedTiers == Tiers \cup {NoTier}
RequestedAmounts == {50, 100, 150, 200, 400, 500}

IsPaypalSubscriptionPaymentMethod(pm) ==
  pm.service = "paypal" /\ pm.type = "subscription"

PayPalSubscription == [features |-> [recurring |-> TRUE, isRecurringManagedExternally |-> TRUE]]

\* a provider that charges recurring contributions itself (cards)
InternalProvider == [features |-> [recurring |-> TRUE, isRecurringManagedExternally |-> FALSE]]

FindPaymentMethodProvider(pm) ==
  IF IsPaypalSubscriptionPaymentMethod(pm) THEN PayPalSubscription ELSE InternalProvider

GetIsSubscriptionManagedExternally(pm) ==
  FindPaymentMethodProvider(pm).features.isRecurringManagedExternally

NoOrder == NewOrder(NoId, NoId, 0)

\* op .. newInterval are the call's inputs and locals; txOrder and txSub are the
\* rows as the open transaction sees them; beforeOrder, beforeSub (the rows as
\* the call found them) and writes (the statements that succeeded) are history.
IdleEdit ==
  [pc |-> "idle", op |-> NULL, user |-> [id |-> NoId, adminOf |-> {}],
   newPaymentMethod |-> NoId, prevPaymentMethod |-> NoId, tier |-> NoTier,
   amountInCents |-> 0, newStatus |-> NULL, wasManagedExternally |-> FALSE,
   isManagedExternally |-> FALSE, txOrder |-> NoOrder, txSub |-> NoRow,
   result |-> NULL, beforeOrder |-> NoOrder, beforeSub |-> NoRow, writes |-> <<>>]

EditSettled == edit.pc \in {"idle", "returned", "thrown"}

ErrUnauthorized == "You don't have permission to use this payment method"
ErrStore == "store failed"

EditThrow(e) == [edit EXCEPT !.pc = "thrown", !.result = e]

\* A check that lets every user through.
IsAdminOfCollectiveAlways(user, collective) == TRUE

\* user.isAdminOfCollective(collective)
IsAdminOfCollective(user, collective) == collective \in user.adminOf

\* A status that is always reset to ACTIVE.
NewStatusAlwaysActive(status) == "ACTIVE"

NewStatus(status) == IF status = "ERROR" THEN "ACTIVE" ELSE status

\* updatePaymentMethodForSubscription up to its first await.
UpdatePaymentMethodForSubscription(user, newPaymentMethod) ==
  /\ EditSettled
  /\ edits < NumEdits
  /\ edits' = edits + 1
  /\ edit' = [IdleEdit EXCEPT !.pc = "getCollective",
                              !.op = "updatePaymentMethod",
                              !.user = user,
                              !.newPaymentMethod = newPaymentMethod.id,
                              !.prevPaymentMethod = order.PaymentMethodId,
                              !.beforeOrder = order,
                              !.beforeSub = subscriptions[order.SubscriptionId]]
  /\ UNCHANGED <<planVars, setupVars, cacheVars, withVars>>

\* newPaymentMethod.getCollective(), the permission check, and the values
\* computed before the transaction opens.
GetCollective ==
  /\ edit.pc = "getCollective"
  /\ \/ edit' = EditThrow(ErrStore)
     \/ LET newPaymentMethodCollective == PaymentMethod(edit.newPaymentMethod).CollectiveId
        IN IF ~IsAdminOfCollective(edit.user, newPaymentMethodCollective)
           THEN edit' = EditThrow(ErrUnauthorized)
           ELSE edit' = [edit EXCEPT
                  !.pc = "txOrder",
                  !.newStatus = NewStatus(order.status),
                  !.wasManagedExternally =
                     GetIsSubscriptionManagedExternally(PaymentMethod(edit.prevPaymentMethod)),
                  !.isManagedExternally =
                     GetIsSubscriptionManagedExternally(PaymentMethod(edit.newPaymentMethod)),
                  !.txOrder = order,
                  !.txSub = subscriptions[order.SubscriptionId]]
  /\ UNCHANGED <<edits, planVars, setupVars, cacheVars, withVars>>

\* order.update({PaymentMethodId, status}, {transaction}); a failure rolls the
\* transaction back.
TxUpdateOrder ==
  /\ edit.pc = "txOrder"
  /\ \/ edit' = EditThrow(ErrStore)
     \/ edit' = [edit EXCEPT
          !.pc = IF edit.wasManagedExternally # edit.isManagedExternally
                 THEN "txSubscription" ELSE "commit",
          !.txOrder = [edit.txOrder EXCEPT !.PaymentMethodId = edit.newPaymentMethod,
                                           !.status = edit.newStatus]]
  /\ UNCHANGED <<edits, planVars, setupVars, cacheVars, withVars>>

\* order.Subscription.update({isManagedExternally, paypalSubscriptionId: null},
\* {transaction})
TxUpdateSubscription ==
  /\ edit.pc = "txSubscription"
  /\ \/ edit' = EditThrow(ErrStore)
     \/ edit' = [edit EXCEPT
          !.pc = "commit",
          !.txSub = [edit.txSub EXCEPT !.isManagedExternally = edit.isManagedExternally,
                                       !.paypalSubscriptionId = NULL]]
  /\ UNCHANGED <<edits, planVars, setupVars, cacheVars, withVars>>

\* The transaction's callback has returned: commit, or fail and roll back.
Commit ==
  /\ edit.pc = "commit"
  /\ \/ /\ edit' = EditThrow(ErrStore)
        /\ UNCHANGED <<order, subscriptions>>
     \/ /\ order' = edit.txOrder
        /\ subscriptions' = [subscriptions EXCEPT ![order.SubscriptionId] = edit.txSub]
        /\ edit' = [edit EXCEPT !.pc = "returned", !.result = "order",
                                !.writes = <<"order", "subscription">>]
  /\ UNCHANGED <<edits, attempt, planVars, cacheVars, withVars>>

ErrTierCollective == "This tier doesn't belong to the given Collective"
ErrInvalidAmount == "Invalid amount."
ErrBelowMinimum == "Amount is less than minimum value allowed for this Tier."
ErrIncorrectAmount == "Amount is incorrect for this Tier."
CheckOk == "ok"

\* A check that also turns the boundary amounts away.
CheckSubscriptionDetailsStrict(o, tier, amountInCents) ==
  IF tier.id # NoId /\ tier.CollectiveId # o.CollectiveId THEN ErrTierCollective
  ELSE IF amountInCents <= 100 THEN ErrInvalidAmount
  ELSE IF tier.id # NoId /\ tier.amountType = "FLEXIBLE"
          /\ amountInCents <= tier.minimumAmount THEN ErrBelowMinimum
  ELSE IF tier.id # NoId /\ tier.amountType = "FIXED"
          /\ amountInCents <= tier.amount THEN ErrIncorrectAmount
  ELSE CheckOk

\* checkSubscriptionDetails: the error thrown, or CheckOk
CheckSubscriptionDetails(o, tier, amountInCents) ==
  IF tier.id # NoId /\ tier.CollectiveId # o.CollectiveId THEN ErrTierCollective
  ELSE IF amountInCents < 100 THEN ErrInvalidAmount
  ELSE IF tier.id # NoId /\ tier.amountType = "FLEXIBLE"
          /\ amountInCents < tier.minimumAmount THEN ErrBelowMinimum
  ELSE IF tier.id # NoId /\ tier.amountType = "FIXED"
          /\ amountInCents < tier.amount THEN ErrIncorrectAmount
  ELSE CheckOk

NewInterval(o, tier) ==
  IF tier.id # NoId /\ tier.interval # NULL /\ tier.interval # "flexible"
  THEN tier.interval ELSE o.interval

\* Where the call goes once the amount is settled: the interval writes, or the
\* tier write.
AfterAmount(o, tier) ==
  IF NewInterval(o, tier) # o.interval THEN "intervalOrder" ELSE "tier"

\* updateSubscriptionDetails up to its first await.
UpdateSubscriptionDetails(tier, amountInCents) ==
  /\ EditSettled
  /\ edits < NumEdits
  /\ edits' = edits + 1
  /\ LET args == [IdleEdit EXCEPT !.op = "updateDetails",
                                  !.tier = tier,
                                  !.amountInCents = amountInCents,
                                  !.beforeOrder = order,
                                  !.beforeSub = subscriptions[order.SubscriptionId]]
         checked == CheckSubscriptionDetails(order, tier, amountInCents)
     IN edit' = IF checked # CheckOk
                THEN [args EXCEPT !.pc = "thrown", !.result = checked]
                ELSE IF amountInCents # order.totalAmount
                THEN [args EXCEPT !.pc = "amountOrder"]
                ELSE [args EXCEPT !.pc = AfterAmount(order, tier)]
  /\ UNCHANGED <<planVars, setupVars, cacheVars, withVars>>

\* order.update({totalAmount: amountInCents})
UpdateOrderAmount ==
  /\ edit.pc = "amountOrder"
  /\ \/ /\ edit' = EditThrow(ErrStore)
        /\ UNCHANGED order
     \/ /\ order' = [order EXCEPT !.totalAmount = edit.amountInCents]
        /\ edit' = [edit EXCEPT !.pc = "amountSubscription",
                                !.writes = Append(@, "order.totalAmount")]
  /\ UNCHANGED <<edits, subscriptions, attempt, planVars, cacheVars, withVars>>

\* order.Subscription.update({amount: amountInCents})
UpdateSubscriptionAmount ==
  /\ edit.pc = "amountSubscription"
  /\ \/ /\ edit' = EditThrow(ErrStore)
        /\ UNCHANGED subscriptions
     \/ /\ subscriptions' = [subscriptions EXCEPT
                               ![order.SubscriptionId].amount = edit.amountInCents]
        /\ edit' = [edit EXCEPT !.pc = AfterAmount(order, edit.tier),
                                !.writes = Append(@, "subscription.amount")]
  /\ UNCHANGED <<edits, order, attempt, planVars, cacheVars, withVars>>

\* order.update({interval: newInterval})
UpdateOrderInterval ==
  /\ edit.pc = "intervalOrder"
  /\ \/ /\ edit' = EditThrow(ErrStore)
        /\ UNCHANGED order
     \/ /\ order' = [order EXCEPT !.interval = NewInterval(order, edit.tier)]
        /\ edit' = [edit EXCEPT !.pc = "intervalSubscription",
                                !.writes = Append(@, "order.interval")]
  /\ UNCHANGED <<edits, subscriptions, attempt, planVars, cacheVars, withVars>>

\* order.Subscription.update({interval: newInterval})
UpdateSubscriptionInterval ==
  /\ edit.pc = "intervalSubscription"
  /\ \/ /\ edit' = EditThrow(ErrStore)
        /\ UNCHANGED subscriptions
     \/ /\ subscriptions' = [subscriptions EXCEPT
                               ![order.SubscriptionId].interval = NewInterval(order, edit.tier)]
        /\ edit' = [edit EXCEPT !.pc = "tier",
                                !.writes = Append(@, "subscription.interval")]
  /\ UNCHANGED <<edits, order, attempt, planVars, cacheVars, withVars>>

\* order.update({TierId: tier ? tier.id : null})
UpdateOrderTier ==
  /\ edit.pc = "tier"
  /\ \/ /\ edit' = EditThrow(ErrStore)
        /\ UNCHANGED order
     \/ /\ order' = [order EXCEPT !.TierId = edit.tier.id]
        /\ edit' = [edit EXCEPT !.pc = "returned", !.result = "order",
                                !.writes = Append(@, "order.TierId")]
  /\ UNCHANGED <<edits, subscriptions, attempt, planVars, cacheVars, withVars>>

EditStep ==
  \/ GetCollective
  \/ TxUpdateOrder
  \/ TxUpdateSubscription
  \/ Commit
  \/ UpdateOrderAmount
  \/ UpdateSubscriptionAmount
  \/ UpdateOrderInterval
  \/ UpdateSubscriptionInterval
  \/ UpdateOrderTier

(***************************************************************************)
(* updateSubscriptionWithPaypal (lib/subscriptions.ts) and the operations  *)
(* of an Order over its life                                               *)
(***************************************************************************)

IdleWith ==
  [pc |-> "idle", paypalSubscriptionId |-> NULL, paymentMethod |-> NoId, result |-> NULL]

\* createPaypalPaymentMethodForSubscription: the PayPal subscription payment
\* method whose token is the external subscription id
PaypalPaymentMethodFor(subscriptionId) ==
  CHOOSE pm \in PaymentMethods :
    IsPaypalSubscriptionPaymentMethod(pm) /\ pm.token = subscriptionId

\* every operation made on the Order so far has returned
AllReturned == edit.pc \in {"idle", "returned"} /\ wcall.pc \in {"idle", "returned"}

\* updateSubscriptionWithPaypal up to its first await.
UpdateSubscriptionWithPaypal(paypalSubscriptionId) ==
  /\ AllReturned
  /\ wcall' = [IdleWith EXCEPT !.pc = "createPaymentMethod",
                               !.paypalSubscriptionId = paypalSubscriptionId]
  /\ UNCHANGED <<planVars, setupVars, editVars, cacheVars>>

\* models.PaymentMethod.create, then the call of setupPaypalSubscriptionForOrder
CreatePaypalPaymentMethodForSubscription ==
  /\ wcall.pc = "createPaymentMethod"
  /\ \/ /\ wcall' = [wcall EXCEPT !.pc = "thrown", !.result = ErrStore]
        /\ UNCHANGED attempt
     \/ LET paymentMethod == PaypalPaymentMethodFor(wcall.paypalSubscriptionId)
        IN /\ wcall' = [wcall EXCEPT !.pc = "setup", !.paymentMethod = paymentMethod.id]
           /\ attempt' = [attempt EXCEPT ![1] = BeginAttempt(paymentMethod.token)]
  /\ UNCHANGED <<order, subscriptions, planVars, editVars, cacheVars>>

\* setupPaypalSubscriptionForOrder threw: the error reaches the caller.
SetupRejected ==
  /\ wcall.pc = "setup"
  /\ attempt[1].pc = "failed"
  /\ wcall' = [wcall EXCEPT !.pc = "thrown", !.result = attempt[1].result]
  /\ UNCHANGED <<planVars, setupVars, editVars, cacheVars>>

\* return order.update({ PaymentMethodId: paymentMethod.id })
UpdateOrderPaymentMethod ==
  /\ wcall.pc = "setup"
  /\ attempt[1].pc = "done"
  /\ \/ /\ order' = [order EXCEPT !.PaymentMethodId = wcall.paymentMethod]
        /\ wcall' = [wcall EXCEPT !.pc = "returned", !.result = "order"]
     \/ /\ wcall' = [wcall EXCEPT !.pc = "thrown", !.result = ErrStore]
        /\ UNCHANGED order
  /\ UNCHANGED <<subscriptions, attempt, planVars, editVars, cacheVars>>

WithIdle == wcall = IdleWith

EditIdle ==
  /\ edit = IdleEdit
  /\ edits = 0
  /\ CacheIdle
  /\ WithIdle

SetupIdle ==
  /\ order = NewOrder(1, NoId, 1000)
  /\ subscriptions = <<>>
  /\ attempt = [a \in Attempts |-> IdleAttempt]
  /\ EditIdle

SetupInit ==
  /\ products = StoreProducts
  /\ plans = StorePlans
  /\ nextId = 8
  /\ rcall = [p \in Callers |-> IdleCall]
  /\ attempt = [a \in Attempts |-> IdleAttempt]
  /\ EditIdle
  /\ \E c \in Collectives, t \in TierIds, amt \in Amounts :
       \/ /\ order = NewOrder(c, t, amt)
          /\ subscriptions = <<>>
       \/ /\ order = [NewOrder(c, t, amt) EXCEPT !.SubscriptionId = 1]
          /\ \/ subscriptions = <<ExistingSubscription(order, FALSE, "sub_1", NULL)>>
             \/ subscriptions = <<ExistingSubscription(order, TRUE, NULL, "I-1")>>

PlanInit ==
  /\ products = {}
  /\ plans = {}
  /\ nextId = 1
  /\ rcall = [p \in Callers |-> IdleCall]

ResolverStep(p) ==
  \/ CreatePaypalProduct(p)
  \/ CreatePaypalPlan(p)
  \/ SavePlan(p)
  \/ SaveProduct(p)
  \/ SavePlanNew(p)

\* A recurring Order of collective 1 with its Subscription, paid by card or by a
\* PayPal subscription.
MutationInit ==
  /\ PlanInit
  /\ attempt = [a \in Attempts |-> IdleAttempt]
  /\ EditIdle
  /\ \E pm \in {1, 2}, st \in OrderStatuses, amt \in {200, 500} :
       /\ order = [NewOrder(1, NoId, amt) EXCEPT !.SubscriptionId = 1,
                                                 !.PaymentMethodId = pm,
                                                 !.status = st]
       /\ subscriptions =
            IF GetIsSubscriptionManagedExternally(PaymentMethod(pm))
            THEN <<ExistingSubscription(order, TRUE, NULL, "I-1")>>
            ELSE <<ExistingSubscription(order, FALSE, "sub_1", NULL)>>

\* No request has arrived and the cache is empty.
CacheInit ==
  /\ PlanInit
  /\ order = NewOrder(1, NoId, 1000)
  /\ subscriptions = <<>>
  /\ attempt = [a \in Attempts |-> IdleAttempt]
  /\ edit = IdleEdit
  /\ edits = 0
  /\ nodeEnv \in NodeEnvs
  /\ requests = [r \in Requests |-> NewRequest]
  /\ entries = [r \in Requests |-> NoEntry]
  /\ cache = [k \in CacheKeys |-> 0]
  /\ WithIdle

\* An Order of collective 1 paid by card, with no Subscription yet or with one
\* charged by Stripe, and the Plans of the store.
LifecycleInit ==
  /\ products = StoreProducts
  /\ plans = StorePlans
  /\ nextId = 8
  /\ rcall = [p \in Callers |-> IdleCall]
  /\ attempt = [a \in Attempts |-> IdleAttempt]
  /\ EditIdle
  /\ \E amt \in Amounts :
       \/ /\ order = [NewOrder(1, NoId, amt) EXCEPT !.PaymentMethodId = 1]
          /\ subscriptions = <<>>
       \/ /\ order = [NewOrder(1, NoId, amt) EXCEPT !.PaymentMethodId = 1,
                                                    !.SubscriptionId = 1]
          /\ subscriptions = <<ExistingSubscription(order, FALSE, "sub_1", NULL)>>

Init == PlanInit /\ SetupIdle

\* Calls whose steps interleave.
PlanNext == \E p \in Callers : GetOrCreatePlan(p) \/ ResolverStep(p)

\* One call at a time.
PlanSerialNext == \E p \in Callers : GetOrCreatePlanSerial(p) \/ ResolverStep(p)

\* Calls of the mutation service on the Order, one at a time.
MutationNext ==
  \/ \E user \in Users, newPaymentMethod \in PaymentMethods :
       UpdatePaymentMethodForSubscription(user, newPaymentMethod)
  \/ \E tier \in RequestedTiers, amountInCents \in RequestedAmounts :
       UpdateSubscriptionDetails(tier, amountInCents)
  \/ EditStep

\* Requests through the middleware, their responses, and cache expiry.
CacheNext ==
  \/ \E r \in Requests, query \in Queries, token \in Tokens : Middleware(r, query, token)
  \/ \E r \in Requests, data \in ResponseData : EndResponse(r, data)
  \/ \E key \in CacheKeys : Expire(key)

\* The operations on one Order, one at a time, each begun only when every
\* operation before it has returned.
LifecycleNext ==
  \/ \E paypalSubscriptionId \in SubIds : UpdateSubscriptionWithPaypal(paypalSubscriptionId)
  \/ CreatePaypalPaymentMethodForSubscription
  \/ SetupStep(1)
  \/ SetupRejected
  \/ UpdateOrderPaymentMethod
  \/ /\ AllReturned
     /\ order.SubscriptionId # NoId
     /\ \/ \E user \in Users, newPaymentMethod \in PaymentMethods :
             UpdatePaymentMethodForSubscription(user, newPaymentMethod)
        \/ \E tier \in RequestedTiers, amountInCents \in RequestedAmounts :
             UpdateSubscriptionDetails(tier, amountInCents)
  \/ EditStep

\* Activations of the Order whose steps interleave.
ConcurrentNext == \E a \in Attempts : SetupConcurrent(a) \/ SetupStep(a)

\* Activations of the Order, one at a time.
Next == \E a \in Attempts : SetupSerial(a) \/ SetupStep(a)

vars == <<planVars, setupVars, editVars, cacheVars, withVars>>

PlanSpec == Init /\ [][PlanNext]_vars
PlanSerialSpec == Init /\ [][PlanSerialNext]_vars
Spec == SetupInit /\ [][Next]_vars
MutationSpec == MutationInit /\ [][MutationNext]_vars
CacheSpec == CacheInit /\ [][CacheNext]_vars
LifecycleSpec == LifecycleInit /\ [][LifecycleNext]_vars
ConcurrentSpec == SetupInit /\ [][ConcurrentNext]_vars

(***************************************************************************)
(* Properties of getOrCreatePlan                                           *)
(***************************************************************************)
Returned(p) == rcall[p].pc = "returned"

SameParameters(p, q) ==
  /\ rcall[p].collective = rcall[q].collective
  /\ rcall[p].tier = rcall[q].tier
  /\ rcall[p].interval = rcall[q].interval
  /\ rcall[p].amount = rcall[q].amount
  /\ rcall[p].currency = rcall[q].currency

IsPrefixOfCalls(s, t) == Len(s) <= Len(t) /\ \A i \in DOMAIN s : s[i] = t[i]

ProductsOf(collective, tier) ==
  {pr \in products : pr.CollectiveId = collective /\ pr.TierId = tier}

\* C1: a call that finds no Product and returns has issued one create-product
\* call followed by one create-plan call and written exactly one Product and one
\* Plan (the Plan it returns); a later call with the same parameters returns the
\* same Plan with no gateway call and no local write.
C1_CreateOnceThenReuse ==
  \A p \in Callers :
    /\ (Returned(p) /\ rcall[p].product = NoId) =>
         /\ rcall[p].gw = << <<"createProduct", NoId>>,
                             <<"createPlan", rcall[p].paypalProduct>> >>
         /\ rcall[p].writes = << <<"product", rcall[p].paypalProduct>>,
                                 <<"plan", rcall[p].paypalPlan>> >>
         /\ rcall[p].ret = rcall[p].paypalPlan
         /\ Cardinality(ProductsOf(rcall[p].collective, rcall[p].tier)) = 1
         /\ Cardinality(MatchingPlans(rcall[p].paypalProduct, rcall[p].currency,
                                      rcall[p].interval, rcall[p].amount)) = 1
    /\ \A q \in Callers :
         (p < q /\ Returned(p) /\ Returned(q) /\ SameParameters(p, q)) =>
           /\ rcall[q].ret = rcall[p].ret
           /\ rcall[q].gw = <<>>
           /\ rcall[q].writes = <<>>

\* C1's case: a call created the Product and the Plan, and a second call with the
\* same parameters has returned.
C1_Witness ==
  /\ Returned(1) /\ rcall[1].product = NoId
  /\ Returned(2) /\ SameParameters(1, 2)

\* C10: the store holds at most one Product per (account, tier-or-null) and at
\* most one Plan per (Product, amount, currency, interval), also when the steps
\* of the calls interleave.
C10_UniqueProductAndPlan ==
  /\ \A pr1, pr2 \in products :
       (pr1.CollectiveId = pr2.CollectiveId /\ pr1.TierId = pr2.TierId) => pr1 = pr2
  /\ \A pl1, pl2 \in plans :
       (/\ pl1.ProductId = pl2.ProductId /\ pl1.amount = pl2.amount
        /\ pl1.currency = pl2.currency /\ pl1.interval = pl2.interval) => pl1 = pl2

\* The call found the Product but no Plan of its (currency, interval, amount).
FoundProductOnly(p) ==
  /\ rcall[p].pc # "idle"
  /\ rcall[p].product # NoId
  /\ ~\E pl \in rcall[p].seenPlans :
        /\ pl.ProductId = rcall[p].product /\ pl.currency = rcall[p].currency
        /\ pl.interval = rcall[p].interval /\ pl.amount = rcall[p].amount

NoLaterCall(p) == \A q \in Callers : q > p => rcall[q].pc = "idle"

\* C11: a call that finds the Product but no Plan of its (currency, interval,
\* amount) issues no create-product call and one create-plan call, scoped to the
\* Product found; when it returns it has written exactly one Plan, under that
\* Product, and the Product and the Plans that existed are as they were.
C11_NewPlanUnderExistingProduct ==
  \A p \in Callers :
    FoundProductOnly(p) =>
      LET c == rcall[p]
          new == [id |-> c.paypalPlan, ProductId |-> c.product, amount |-> c.amount,
                  currency |-> c.currency, interval |-> c.interval]
      IN /\ IsPrefixOfCalls(c.gw, << <<"createPlan", c.product>> >>)
         /\ c.paypalProduct = NoId
         /\ c.pc = "returned" =>
              /\ c.gw = << <<"createPlan", c.product>> >>
              /\ c.writes = << <<"plan", c.paypalPlan>> >>
              /\ c.ret = c.paypalPlan
              /\ new \notin c.seenPlans
         /\ NoLaterCall(p) =>
              /\ products = c.seenProducts
              /\ plans = IF c.pc = "returned" THEN c.seenPlans \cup {new} ELSE c.seenPlans

C11_Witness ==
  \E p \in Callers :
    /\ FoundProductOnly(p) /\ Returned(p)
    /\ Cardinality(plans) = 2 /\ Cardinality(products) = 1

\* C12: a failing create-product or create-plan call leaves the store as the call
\* found it, and between calls no Product is stored without a Plan and no Plan
\* without its Product (the new Product and its Plan are written as one unit).
C12_GatewayFailureAndAtomicCreate ==
  /\ \A p \in Callers :
       (rcall[p].pc = "thrown" /\ rcall[p].paypalPlan = NoId /\ NoLaterCall(p)) =>
         /\ products = rcall[p].seenProducts
         /\ plans = rcall[p].seenPlans
  /\ (\A p \in Callers : Settled(p)) =>
       /\ \A pr \in products : \E pl \in plans : pl.ProductId = pr.id
       /\ \A pl \in plans : \E pr \in products : pr.id = pl.ProductId

(***************************************************************************)
(* Properties of setupPaypalSubscriptionForOrder and verifySubscription    *)
(***************************************************************************)
\* The events of a trace that are of the given kinds.
Only(tr, kinds) == SelectSeq(tr, LAMBDA e : e[1] \in kinds)

Has(tr, kind, ok) == \E i \in DOMAIN tr : tr[i][1] = kind /\ tr[i][3] = ok

IsPrefix(s, t) == Len(s) <= Len(t) /\ \A i \in DOMAIN s : s[i] = t[i]

Row(a) == subscriptions[attempt[a].existing]

\* The Order had a Subscription holding another external id than the one set up.
ReplacesOther(a) ==
  /\ attempt[a].pc # "idle"
  /\ attempt[a].existing # NoId
  /\ attempt[a].before.paypalSubscriptionId \notin {NULL, attempt[a].token}

\* C2: on an Order whose Subscription holds another external id, with the new
\* external subscription verified, the calls and writes that follow are, in this
\* order, one cancel of the old id, the update of the Subscription to the new id
\* (externally managed, stripe id cleared) and one activate of the new id: a
\* successful activation has issued exactly these, and at any moment those issued
\* so far are a prefix of them.
C2_CancelUpdateActivate ==
  \A a \in Attempts :
    ReplacesOther(a) =>
      LET old == attempt[a].before.paypalSubscriptionId
          new == attempt[a].token
          expected == << <<"cancel", old>>, <<"update", new>>, <<"activate", new>> >>
          issued == Only(attempt[a].trace, {"cancel", "update", "activate"})
          calls == [i \in DOMAIN issued |-> <<issued[i][1], issued[i][2]>>]
      IN /\ IsPrefix(calls, expected)
         /\ \A i \in DOMAIN issued : i < Len(issued) => issued[i][3]
         /\ attempt[a].pc \in {"activate", "done"} =>
              /\ Len(issued) >= 2
              /\ InitialSubscriptionParams(Row(a)) = NewSubscriptionParams(new)
         /\ attempt[a].pc = "done" =>
              /\ calls = expected
              /\ issued[3][3]

C2_Witness ==
  \E a \in Attempts : ReplacesOther(a) /\ attempt[a].pc = "done"

OriginalFailure(a) ==
  LET failed == SelectSeq(attempt[a].trace, LAMBDA e : ~e[3] /\ e[1] # "restore")
  IN IF failed = <<>> THEN attempt[a].verdict
     ELSE CASE failed[1][1] = "fetch" -> "fetch failed"
            [] failed[1][1] = "rename" -> "rename failed"
            [] failed[1][1] = "cancel" -> "cancel failed"
            [] failed[1][1] = "update" -> "update failed"
            [] failed[1][1] = "create" -> "create failed"
            [] failed[1][1] = "activate" -> "activate failed"

Approved(sub) == sub.status = "APPROVED"

\* the local Plans with the external plan id under a Product of the Order's
\* (CollectiveId, TierId)
PlansUnderOrder(sub) ==
  {pl \in plans :
     /\ pl.id = sub.plan_id
     /\ \E pr \in products :
          pr.id = pl.ProductId /\ pr.CollectiveId = order.CollectiveId
                               /\ pr.TierId = order.TierId}

\* C5: verifySubscription accepts exactly when the external subscription is
\* APPROVED, a local Plan with its plan id exists under a Product of the Order's
\* (CollectiveId, TierId) and that Plan's amount is the Order's totalAmount;
\* otherwise it reports the first violated rule, in the order approval, plan
\* match, amount match.
C5_VerifySubscription ==
  \A a \in Attempts :
    attempt[a].verdict # NULL =>
      LET sub == attempt[a].fetched
          v == attempt[a].verdict
          planOk == PlansUnderOrder(sub) # {}
          amountOk == \E pl \in PlansUnderOrder(sub) : pl.amount = order.totalAmount
      IN /\ v = VerifyOk <=> (Approved(sub) /\ planOk /\ amountOk)
         /\ ~Approved(sub) => v = ErrNotApproved
         /\ (Approved(sub) /\ ~planOk) => v = ErrPlanMismatch
         /\ (Approved(sub) /\ planOk /\ ~amountOk) => v = ErrAmountMismatch

\* A Plan under the Order's Product with another amount was verified.
C5_Witness ==
  \E a \in Attempts :
    /\ attempt[a].verdict = ErrAmountMismatch
    /\ PlansUnderOrder(attempt[a].fetched) # {}

\* C6: with a fetched status other than APPROVED, on an Order without a
\* Subscription, the operation fails with the activation error whose root cause
\* is the approval error, no Subscription is created and no activate is issued.
C6_NotApprovedFails ==
  \A a \in Attempts :
    (/\ attempt[a].fetched.status \notin {NULL, "APPROVED"}
     /\ attempt[a].existing = NoId) =>
      /\ attempt[a].pc \in {"verify", "catch", "failed"}
      /\ Only(attempt[a].trace, {"create", "activate"}) = <<>>
      /\ subscriptions = <<>>
      /\ order.SubscriptionId = NoId
      /\ attempt[a].pc = "failed" =>
           /\ attempt[a].result = ActivationError
           /\ attempt[a].root = ErrNotApproved

C6_Witness ==
  \E a \in Attempts :
    /\ attempt[a].pc = "failed"
    /\ attempt[a].fetched.status = "ACTIVE"
    /\ attempt[a].existing = NoId

Mutations == {"rename", "cancel", "update", "create", "activate", "restore"}

\* C7: no store write (payment method rename, Subscription create or update) and
\* no cancel or activate call is issued before verifySubscription has succeeded
\* for the attempt; until then the Subscription and the payment method are as the
\* call found them.
C7_VerifyBeforeMutation ==
  \A a \in Attempts :
    /\ \A i \in DOMAIN attempt[a].trace :
         attempt[a].trace[i][1] \in Mutations =>
           /\ attempt[a].verdict = VerifyOk
           /\ \E j \in 1..(i - 1) : attempt[a].trace[j][1] = "verified"
    /\ (attempt[a].pc # "idle" /\ attempt[a].verdict # VerifyOk) =>
         /\ attempt[a].pmName = NULL
         /\ order.SubscriptionId = attempt[a].existing
         /\ attempt[a].existing # NoId => Row(a) = attempt[a].before

\* A verified attempt went on to write.
C7_Witness ==
  \E a \in Attempts :
    /\ attempt[a].verdict = VerifyOk
    /\ Has(attempt[a].trace, "rename", TRUE)
    /\ Has(attempt[a].trace, "update", TRUE)

InfrastructureFailures ==
  {"fetch failed", "rename failed", "create failed", "activate failed"}

\* C8: on an Order without a Subscription, with an approved external
\* subscription naming a Plan under the Order's (account, tier) of the Order's
\* totalAmount, the activation is not refused (it can only fail by a failing
\* gateway call or store write), and when it succeeds it has created exactly one
\* Subscription (externally managed, chargeNumber 0, amount, currency, interval
\* and quantity of the Order), issued exactly one activate, on the new id, and no
\* cancel.
C8_CreatesSubscription ==
  \A a \in Attempts :
    (attempt[a].pc # "idle" /\ attempt[a].existing = NoId) =>
      /\ attempt[a].pc = "done" =>
           /\ Len(subscriptions) = 1
           /\ order.SubscriptionId = 1
           /\ subscriptions[1].paypalSubscriptionId = attempt[a].token
           /\ subscriptions[1].isManagedExternally = TRUE
           /\ subscriptions[1].chargeNumber = 0
           /\ subscriptions[1].amount = order.totalAmount
           /\ subscriptions[1].currency = order.currency
           /\ subscriptions[1].interval = order.interval
           /\ subscriptions[1].quantity = order.quantity
           /\ Only(attempt[a].trace, {"create"}) = << <<"create", attempt[a].token, TRUE>> >>
           /\ Only(attempt[a].trace, {"activate"}) = << <<"activate", attempt[a].token, TRUE>> >>
           /\ Only(attempt[a].trace, {"cancel"}) = <<>>
      /\ (/\ attempt[a].pc \in {"catch", "failed"}
          /\ Approved(attempt[a].fetched)
          /\ \E pl \in PlansUnderOrder(attempt[a].fetched) : pl.amount = order.totalAmount) =>
           attempt[a].root \in InfrastructureFailures

C8_Witness ==
  \E a \in Attempts :
    /\ attempt[a].pc = "done" /\ attempt[a].existing = NoId
    /\ Len(subscriptions) = 1

\* C9: after a successful activation the Subscription's paypalSubscriptionId is
\* the id of the external subscription the gateway returned for the fetch,
\* whatever id that is.
C9_StoresFetchedId ==
  \A a \in Attempts :
    attempt[a].pc = "done" =>
      subscriptions[order.SubscriptionId].paypalSubscriptionId = attempt[a].fetched.id

\* C17: an activation never issues a cancel call against the external id it is
\* activating: a cancel call is issued only when the Subscription held an
\* external id other than the payment method's token.
C17_NeverCancelsActivatedId ==
  \A a \in Attempts :
    \A i \in DOMAIN attempt[a].trace :
      attempt[a].trace[i][1] = "cancel" =>
        /\ attempt[a].trace[i][2] # attempt[a].token
        /\ attempt[a].before.paypalSubscriptionId \notin {NULL, attempt[a].token}

\* C21: an activation that fails on an Order that had no Subscription leaves the
\* Order with no Subscription, whichever step failed.
C21_FailureLeavesNoSubscription ==
  \A a \in Attempts :
    (attempt[a].pc = "failed" /\ attempt[a].existing = NoId) =>
      /\ order.SubscriptionId = NoId
      /\ subscriptions = <<>>

\* C22: when a failed activation has restored a Subscription that was managed by
\* PayPal, the external subscription the restored row points at was not
\* cancelled by that attempt.
C22_RestoredSubscriptionNotCancelled ==
  \A a \in Attempts :
    (/\ attempt[a].pc = "failed"
     /\ attempt[a].result = ActivationError
     /\ attempt[a].existing # NoId
     /\ attempt[a].initial.isManagedExternally
     /\ attempt[a].initial.paypalSubscriptionId # NULL) =>
       ~\E i \in DOMAIN attempt[a].trace :
           attempt[a].trace[i] = Event("cancel", attempt[a].initial.paypalSubscriptionId, TRUE)

\* C24: when of two activations of the Order one has succeeded and the other has
\* failed and rolled back, the Order's Subscription holds the external id of the
\* successful one and is managed externally.
C24_RollbackKeepsSuccessfulResult ==
  \A a, b \in Attempts :
    (/\ attempt[a].pc = "done"
     /\ attempt[b].pc = "failed"
     /\ attempt[b].result = ActivationError) =>
       /\ order.SubscriptionId # NoId
       /\ subscriptions[order.SubscriptionId].paypalSubscriptionId = attempt[a].token
       /\ subscriptions[order.SubscriptionId].isManagedExternally

(***************************************************************************)
(* Properties of the subscription mutation service                         *)
(***************************************************************************)

\* the Order's Subscription row
OrderSubscription == subscriptions[order.SubscriptionId]

\* C13: a payment-method swap asked by a user who does not administer the new
\* payment method's account never opens the transaction: it fails, with the
\* Unauthorized error once the account has been read, and the Order and its
\* Subscription are as the call found them.
C13_UnauthorizedSwapRejected ==
  (/\ edit.op = "updatePaymentMethod"
   /\ PaymentMethod(edit.newPaymentMethod).CollectiveId \notin edit.user.adminOf) =>
     /\ edit.pc \in {"getCollective", "thrown"}
     /\ edit.pc = "thrown" => edit.result \in {ErrUnauthorized, ErrStore}
     /\ edit.writes = <<>>
     /\ order = edit.beforeOrder
     /\ OrderSubscription = edit.beforeSub

C13_Witness ==
  /\ edit.op = "updatePaymentMethod"
  /\ edit.pc = "thrown"
  /\ edit.result = ErrUnauthorized
  /\ edit.user.id = 1
  /\ edit.newPaymentMethod = 3

\* The rows an authorized swap leaves when it returns.
SwappedOrder ==
  [edit.beforeOrder EXCEPT
     !.PaymentMethodId = edit.newPaymentMethod,
     !.status = IF edit.beforeOrder.status = "ERROR" THEN "ACTIVE"
                ELSE edit.beforeOrder.status]

CapabilityDiffers ==
  GetIsSubscriptionManagedExternally(PaymentMethod(edit.beforeOrder.PaymentMethodId))
    # GetIsSubscriptionManagedExternally(PaymentMethod(edit.newPaymentMethod))

SwappedSubscription ==
  IF CapabilityDiffers
  THEN [edit.beforeSub EXCEPT
          !.isManagedExternally =
             GetIsSubscriptionManagedExternally(PaymentMethod(edit.newPaymentMethod)),
          !.paypalSubscriptionId = NULL]
  ELSE edit.beforeSub

\* C14: a payment-method swap is all or nothing. When it returns, the Order
\* refers to the new method, its status is ACTIVE if it was ERROR and otherwise
\* what it was, and the Subscription has the new method's externally-managed
\* capability and no external id exactly when the two methods differ in that
\* capability (it is untouched otherwise); in every other state of the call the
\* Order and the Subscription are as the call found them.
C14_SwapAllOrNothing ==
  edit.op = "updatePaymentMethod" =>
    IF edit.pc = "returned"
    THEN /\ order = SwappedOrder
         /\ OrderSubscription = SwappedSubscription
         /\ IsAdminOfCollective(edit.user, PaymentMethod(edit.newPaymentMethod).CollectiveId)
    ELSE /\ order = edit.beforeOrder
         /\ OrderSubscription = edit.beforeSub

C14_Witness ==
  /\ edit.op = "updatePaymentMethod"
  /\ edit.pc = "returned"
  /\ CapabilityDiffers
  /\ edit.beforeOrder.status = "ERROR"
  /\ order.status = "ACTIVE"
  /\ edit.beforeSub.paypalSubscriptionId = "I-1"
  /\ OrderSubscription.paypalSubscriptionId = NULL

\* The request the claim says is turned away.
Rejected(o, tier, amountInCents) ==
  \/ tier.id # NoId /\ tier.CollectiveId # o.CollectiveId
  \/ amountInCents < 100
  \/ tier.id # NoId /\ tier.amountType = "FLEXIBLE" /\ amountInCents < tier.minimumAmount
  \/ tier.id # NoId /\ tier.amountType = "FIXED" /\ amountInCents < tier.amount

CheckFailed == edit.pc = "thrown" /\ edit.result # ErrStore

C16_DetailsApplied ==
  (edit.op = "updateDetails" /\ edit.pc = "returned") =>
    /\ order.totalAmount = edit.amountInCents
    /\ OrderSubscription.amount = edit.amountInCents
    /\ IF /\ edit.tier.id # NoId
          /\ edit.tier.interval \notin {NULL, "flexible"}
          /\ edit.tier.interval # edit.beforeOrder.interval
       THEN /\ order.interval = edit.tier.interval
            /\ OrderSubscription.interval = edit.tier.interval
       ELSE /\ order.interval = edit.beforeOrder.interval
            /\ OrderSubscription.interval = edit.beforeSub.interval
    /\ order.TierId = edit.tier.id

Consistent(o, s) == o.totalAmount = s.amount /\ o.interval = s.interval

\* C18: if the Order and its Subscription agree on amount and interval when
\* updateSubscriptionDetails is called, they agree when it has returned or failed.
C18_OrderAndSubscriptionAgree ==
  (/\ edit.op = "updateDetails"
   /\ edit.pc \in {"returned", "thrown"}
   /\ Consistent(edit.beforeOrder, edit.beforeSub)) =>
     Consistent(order, OrderSubscription)

(***************************************************************************)
(* Properties of the response cache middleware                             *)
(***************************************************************************)

Arrived(r) == requests[r].state # "new"

\* C19: a non-mutation request that arrives while a request with the same cache
\* key is still being processed is not passed to the downstream handler, and the
\* response it gets is the response of that request.
C19_WaitsForRequestInProgress ==
  nodeEnv = "production" =>
    \A r \in Requests :
      (/\ Arrived(r)
       /\ ~ContainsMutation(requests[r].query)
       /\ requests[r].inProgress # 0) =>
         /\ ~requests[r].downstream
         /\ requests[r].state = "answered" =>
              /\ requests[requests[r].inProgress].state = "answered"
              /\ requests[r].body = requests[requests[r].inProgress].body

\* What C20 says of a request whose query contains 'mutation': it goes
\* downstream and nothing is stored for it.
MutationPassedThrough(r) ==
  /\ requests[r].downstream
  /\ requests[r].cached = 0
  /\ entries[r] = NoEntry
  /\ \A key \in CacheKeys : cache[key] # r

\* C20 as stated: a non-mutation request that finds a finished entry under its
\* key is answered with the stored body and content type and is not passed
\* downstream, whatever data the first response ended with; a mutation is always
\* passed downstream and never stored.
C20_ServedWhateverTheData ==
  \A r \in Requests :
    Arrived(r) =>
      IF ContainsMutation(requests[r].query)
      THEN MutationPassedThrough(r)
      ELSE requests[r].found.status = "finished" =>
             /\ ~requests[r].downstream
             /\ requests[r].state = "answered"
             /\ requests[r].body = requests[r].found.response.bytes
             /\ requests[r].contentType = requests[r].found.contentType

\* C20, amended: the finished entry is served, with its body and the JSON content
\* type, when the first response ended with an object (a Buffer); when it ended
\* with a string or with no data the entry is not served: the request is passed
\* downstream and stores a new entry. A mutation is always passed downstream and
\* never stored.
C20_ServedWhenEndedWithObject ==
  \A r \in Requests :
    Arrived(r) =>
      IF ContainsMutation(requests[r].query)
      THEN MutationPassedThrough(r)
      ELSE requests[r].found.status = "finished" =>
             IF requests[r].found.response.kind = "buffer"
             THEN /\ ~requests[r].downstream
                  /\ requests[r].state = "answered"
                  /\ requests[r].body = requests[r].found.response.bytes
                  /\ requests[r].found.contentType = JsonContentType
                  /\ requests[r].contentType = JsonContentType
             ELSE /\ requests[r].downstream
                  /\ requests[r].cached = r

C20_Witness ==
  \E r \in Requests :
    /\ Arrived(r)
    /\ requests[r].found.status = "finished"
    /\ requests[r].found.response.kind = "buffer"
    /\ requests[r].state = "answered"
    /\ ~requests[r].downstream
    /\ requests[r].body = "e30="

(***************************************************************************)
(* Properties of an Order over its operations                              *)
(***************************************************************************)

\* C23: after any sequence of updateSubscriptionWithPaypal,
\* updatePaymentMethodForSubscription and updateSubscriptionDetails calls that all
\* returned, a Subscription that is managed externally holds an external
\* subscription id, and that id is the token of the Order's payment method.
C23_ManagedSubscriptionFollowsPaymentMethod ==
  (/\ AllReturned
   /\ order.SubscriptionId # NoId
   /\ OrderSubscription.isManagedExternally) =>
     /\ OrderSubscription.paypalSubscriptionId # NULL
     /\ OrderSubscription.paypalSubscriptionId = PaymentMethod(order.PaymentMethodId).token

\* C25: after an activation and any sequence of calls that all returned, while the
\* Subscription is managed externally and still refers to the activated external
\* subscription, Subscription.amount and Order.totalAmount are the amount of the
\* Plan that external subscription bills on.
C25_AmountFollowsPlan ==
  (/\ AllReturned
   /\ attempt[1].pc = "done"
   /\ order.SubscriptionId # NoId
   /\ OrderSubscription.isManagedExternally
   /\ OrderSubscription.paypalSubscriptionId = attempt[1].token) =>
     \E plan \in plans :
       /\ plan.id = attempt[1].fetched.plan_id
       /\ plan.amount = OrderSubscription.amount
       /\ plan.amount = order.totalAmount

====
